---- MODULE Spec2Model ----
(***************************************************************************)
(* SecurityReportParser (src/report/parser.py): crawl of a report tree,    *)
(* per-format extraction, deduplication/merge keyed by vuln_id, and the    *)
(* write of the deduplicated collection.                                   *)
(*                                                                         *)
(* RAGLLMPolicyGenerator (src/report/llmgenerator.py) and                  *)
(* Experiment3RAGGenerator (src/report/run_experiment3.py): the generation *)
(* loop over the loaded policies, one request to the model server per      *)
(* entry, and the write of policies.json and metadata.json.                *)
(*                                                                         *)
(* Python values: None is the string "None"; a dict with string keys is a  *)
(* function whose DOMAIN is its key set (an absent key is not in DOMAIN);  *)
(* a list is a sequence; the insertion-ordered dict deduplicated_vulns is  *)
(* a sequence of [key, value] items in insertion order.                    *)
(***************************************************************************)
EXTENDS Integers, Sequences, FiniteSets, TLC

VARIABLES
    deduplicated_vulns, \* self.deduplicated_vulns
    merged,             \* history: every finding handed to deduplicate_and_merge, with its run_id
    tree,               \* the report files under brut_dir, in os.walk order
    files,              \* run(): the part of the work list not yet processed
    pc,                 \* run(): "idle", "loop", "done", "raised"
    error,              \* the exception run() ended with, or None
    parsed,             \* history: every finding returned by parse_report
    written,            \* history: every array written by save_parsed_reports
    run_calls,          \* number of run() invocations started
    policies_raw,       \* generator: the keys of the loaded policies file, in file order
    limit_per_model,    \* generator: limit_per_model
    reference_policies, \* generator: the keys of self.reference_policies / self.vulnerabilities, in dict order
    model,              \* generation loop: the model name
    experiment,         \* generation loop: the experiment
    gen_pc,             \* generation loop: "idle", "loop", "waiting", "saved", "raised"
    gen_error,          \* the exception the generation loop ended with, or None
    timeout,            \* generation loop: the local timeout
    todo,               \* generation loop: the keys not yet iterated
    generated_policies, \* generated_policies / model_policies, in insertion order
    metadata,           \* metadata / model_metadata
    experiment_stats,   \* self.experiment_stats, in insertion order
    requests,           \* history: every request sent to the model server
    replies,            \* history: how each completed request ended
    saved               \* history: every file written by the generation loop

parser_vars ==
    <<deduplicated_vulns, merged, tree, files, pc, error, parsed, written, run_calls>>

gen_vars ==
    <<policies_raw, limit_per_model, reference_policies, model, experiment, gen_pc, gen_error,
      timeout, todo, generated_policies, metadata, experiment_stats, requests, replies, saved>>

vars == <<parser_vars, gen_vars>>

(***************************************************************************)
(* Bounds                                                                  *)
(***************************************************************************)
\* findings handed to deduplicate_and_merge in one behaviour of SpecMerge
MaxMerged == 3
\* files in the report tree
MaxFiles == 2
\* invocations of run() on one parser
MaxRunCalls == 2
\* entries in the policies file a generator loads
MaxPolicies == 3
\* largest limit_per_model a generator is built with
MaxLimit == 2
\* directories that name a marker on one path
MaxMarkers == 2
\* results in one Semgrep or Checkov report
MaxResults == 2

(***************************************************************************)
(* Python built-ins used by the parser                                     *)
(***************************************************************************)
None == "None"

Range(s) == {s[i] : i \in DOMAIN s}

\* bool(v) for the scalar values that occur: None, "", and 0.0 are false
Truthy(v) == v \notin {None, "", "0.0"}

\* d.get(k, default)
Get(d, k, default) == IF k \in DOMAIN d THEN d[k] ELSE default

\* d[k] = v on a dict with string keys
SetItem(d, k, v) == [x \in (DOMAIN d) \cup {k} |-> IF x = k THEN v ELSE d[x]]

\* d.pop(k): the dict without the key
Pop(d, k) == [x \in (DOMAIN d) \ {k} |-> d[x]]

\* key in self.deduplicated_vulns
HasKey(coll, key) == \E i \in 1..Len(coll) : coll[i].key = key

\* self.deduplicated_vulns[key]
Lookup(coll, key) == coll[CHOOSE i \in 1..Len(coll) : coll[i].key = key].value

\* variant of Store: a new key goes first
Store_NewKeyFirst(coll, key, value) ==
    IF HasKey(coll, key)
    THEN [i \in 1..Len(coll) |->
            IF coll[i].key = key THEN [key |-> key, value |-> value] ELSE coll[i]]
    ELSE <<[key |-> key, value |-> value]>> \o coll

\* self.deduplicated_vulns[key] = value: a new key goes last
Store(coll, key, value) ==
    IF HasKey(coll, key)
    THEN [i \in 1..Len(coll) |->
            IF coll[i].key = key THEN [key |-> key, value |-> value] ELSE coll[i]]
    ELSE Append(coll, [key |-> key, value |-> value])

\* list(self.deduplicated_vulns.values())
Values(coll) == [i \in 1..Len(coll) |-> coll[i].value]

\* no generator exists
NoGenerator ==
    /\ policies_raw = <<>>
    /\ limit_per_model = 0
    /\ reference_policies = <<>>
    /\ model = <<>>
    /\ experiment = None
    /\ gen_pc = "idle"
    /\ gen_error = None
    /\ timeout = 0
    /\ todo = <<>>
    /\ generated_policies = <<>>
    /\ metadata = <<>>
    /\ experiment_stats = <<>>
    /\ requests = <<>>
    /\ replies = <<>>
    /\ saved = <<>>

(***************************************************************************)
(* deduplicate_and_merge                                                   *)
(*                                                                         *)
(* Every finding is a dict of its own, as the extractors build them: the   *)
(* new-entry branch stores the finding itself and pops its                 *)
(* affected_component, which the caller's list shares.                     *)
(***************************************************************************)
\* variant of KeyOf: keyed by the component instead of the id
KeyOf_ByComponent(vuln) == vuln["affected_component"]

\* key = vuln['vuln_id']
KeyOf(vuln) == vuln["vuln_id"]

\* variant of MetadataFields: the title is filled in like the metadata
MetadataFields_WithTitle == <<"cvss_score", "fixed_version", "description", "cwe", "title">>

MetadataFields == <<"cvss_score", "fixed_version", "description", "cwe">>

\* variant of MergeComponent: without the membership test
MergeComponent_AlwaysAppend(existing, vuln) ==
    SetItem(existing, "affected_components",
            Append(existing["affected_components"], vuln["affected_component"]))

\* if vuln['affected_component'] not in existing['affected_components']: append
MergeComponent(existing, vuln) ==
    IF vuln["affected_component"] \notin Range(existing["affected_components"])
    THEN SetItem(existing, "affected_components",
                 Append(existing["affected_components"], vuln["affected_component"]))
    ELSE existing

\* variant of UpdateField: without the test of the existing value
UpdateField_LastWins(existing, vuln, field) ==
    IF Truthy(Get(vuln, field, None))
    THEN SetItem(existing, field, vuln[field])
    ELSE existing

\* if not existing.get(field) and vuln.get(field): existing[field] = vuln[field]
UpdateField(existing, vuln, field) ==
    IF ~Truthy(Get(existing, field, None)) /\ Truthy(Get(vuln, field, None))
    THEN SetItem(existing, field, vuln[field])
    ELSE existing

\* for field in ['cvss_score', 'fixed_version', 'description', 'cwe']: ...
RECURSIVE UpdateMetadata(_, _, _)
UpdateMetadata(existing, vuln, fields) ==
    IF fields = <<>> THEN existing
    ELSE UpdateMetadata(UpdateField(existing, vuln, Head(fields)), vuln, Tail(fields))

\* variant of UpdateRuns: the run is not recorded
UpdateRuns_Skips(existing, run_id) == existing

\* variant of UpdateRuns: a new run goes first
UpdateRuns_NewestFirst(existing, run_id) ==
    IF run_id \notin Range(existing["pipeline_runs"])
    THEN SetItem(existing, "pipeline_runs", <<run_id>> \o existing["pipeline_runs"])
    ELSE existing

\* if run_id not in existing['pipeline_runs']: append
UpdateRuns(existing, run_id) ==
    IF run_id \notin Range(existing["pipeline_runs"])
    THEN SetItem(existing, "pipeline_runs", Append(existing["pipeline_runs"], run_id))
    ELSE existing

\* variant of AddOccurrences: the finding's own count is ignored
AddOccurrences_CountsOne(existing, vuln) ==
    SetItem(existing, "occurrences", existing["occurrences"] + 1)

\* variant of AddOccurrences: the count stays
AddOccurrences_Keeps(existing, vuln) == existing

\* existing['occurrences'] += vuln.get('occurrences', 1)
AddOccurrences(existing, vuln) ==
    SetItem(existing, "occurrences", existing["occurrences"] + Get(vuln, "occurrences", 1))

\* variant of InitEntry: the finding's own count is ignored
InitEntry_CountsOne(vuln, run_id) ==
    SetItem(SetItem(SetItem(Pop(vuln, "affected_component"),
                            "affected_components", <<vuln["affected_component"]>>),
                    "pipeline_runs", <<run_id>>),
            "occurrences", 1)

\* the else branch: the finding itself becomes the entry
InitEntry(vuln, run_id) ==
    LET v1 == SetItem(Pop(vuln, "affected_component"),
                      "affected_components", <<vuln["affected_component"]>>)
        v2 == SetItem(v1, "pipeline_runs", <<run_id>>)
    IN  SetItem(v2, "occurrences", Get(v2, "occurrences", 1))

\* the if branch: the existing entry is updated in place
MergeExisting(existing, vuln, run_id) ==
    AddOccurrences(
        UpdateRuns(
            UpdateMetadata(MergeComponent(existing, vuln), vuln, MetadataFields),
            run_id),
        vuln)

\* one iteration of the loop over vulns
MergeOne(coll, vuln, run_id) ==
    LET key == KeyOf(vuln) IN
    IF HasKey(coll, key)
    THEN Store(coll, key, MergeExisting(Lookup(coll, key), vuln, run_id))
    ELSE Store(coll, key, InitEntry(vuln, run_id))

\* variant of deduplicate_and_merge: after the loop the run is recorded in every entry
RECURSIVE deduplicate_and_merge_RecordsRun(_, _, _)
deduplicate_and_merge_RecordsRun(coll, vulns, run_id) ==
    IF vulns = <<>>
    THEN [i \in 1..Len(coll) |-> [key |-> coll[i].key, value |-> UpdateRuns(coll[i].value, run_id)]]
    ELSE deduplicate_and_merge_RecordsRun(MergeOne(coll, Head(vulns), run_id), Tail(vulns), run_id)

RECURSIVE deduplicate_and_merge(_, _, _)
deduplicate_and_merge(coll, vulns, run_id) ==
    IF vulns = <<>> THEN coll
    ELSE deduplicate_and_merge(MergeOne(coll, Head(vulns), run_id), Tail(vulns), run_id)

\* the history entries of one call
Contributions(vulns, run_id) == [i \in 1..Len(vulns) |-> [vuln |-> vulns[i], run_id |-> run_id]]

(***************************************************************************)
(* Inputs of the merge engine: findings shaped like the extractors'        *)
(* output dicts (a Trivy finding has no cwe key), optionally carrying      *)
(* their own occurrences count.                                            *)
(***************************************************************************)
ProfileEmpty ==
    [type |-> "vulnerability", title |-> "t1", severity |-> "HIGH", source |-> "trivy",
     cvss_score |-> None, fixed_version |-> None, description |-> None]

ProfileFalsy ==
    [type |-> "sast_finding", title |-> "t2", severity |-> "LOW", source |-> "semgrep",
     cvss_score |-> "0.0", fixed_version |-> None, description |-> "", cwe |-> None]

ProfileScoreOnly ==
    [type |-> "vulnerability", title |-> "t1", severity |-> "HIGH", source |-> "trivy",
     cvss_score |-> "7.5", fixed_version |-> None, description |-> None]

ProfileA ==
    [type |-> "dependency", title |-> "t3", severity |-> "Critical", source |-> "grype",
     cvss_score |-> "7.5", fixed_version |-> "1.1.1", description |-> "d1", cwe |-> "CWE-79"]

ProfileB ==
    [type |-> "dependency", title |-> "t4", severity |-> "Medium", source |-> "grype",
     cvss_score |-> "9.0", fixed_version |-> "3.0.0", description |-> "d2", cwe |-> "CWE-89"]

ProfileCounted ==
    [type |-> "dependency", title |-> "t3", severity |-> "Critical", source |-> "grype",
     cvss_score |-> None, fixed_version |-> None, description |-> None, cwe |-> None,
     occurrences |-> 2]

\* a Trivy finding whose vulnerability carries no Title and no Severity
ProfileUntitled ==
    [type |-> "vulnerability", title |-> None, severity |-> "UNKNOWN", source |-> "trivy",
     cvss_score |-> None, fixed_version |-> None, description |-> None]

Finding(id, component, profile) ==
    [vuln_id |-> id, affected_component |-> component] @@ profile

MergeFindings ==
    { Finding("CVE-1", "openssl", ProfileEmpty),
      Finding("CVE-1", "zlib", ProfileEmpty),
      Finding("CVE-2", "openssl", ProfileEmpty),
      Finding("CVE-1", "openssl", ProfileFalsy),
      Finding("CVE-1", "zlib", ProfileScoreOnly),
      Finding("CVE-1", "openssl", ProfileA),
      Finding("CVE-1", "openssl", ProfileB),
      Finding("CVE-2", "zlib", ProfileB),
      Finding("CVE-1", "openssl", ProfileCounted),
      Finding("CVE-2", "zlib", ProfileCounted),
      Finding("CVE-1", "openssl", ProfileUntitled) }

MergeRunIds == {12, 13}

\* the lists of at most n findings
FindingLists(n) == UNION { [1..k -> MergeFindings] : k \in 0..n }

(***************************************************************************)
(* SpecMerge: any sequence of deduplicate_and_merge calls on a new parser  *)
(***************************************************************************)
InitMerge ==
    /\ deduplicated_vulns = <<>>
    /\ merged = <<>>
    /\ tree = <<>>
    /\ files = <<>>
    /\ pc = "idle"
    /\ error = None
    /\ parsed = <<>>
    /\ written = <<>>
    /\ run_calls = 0
    /\ NoGenerator

MergeCall ==
    \E run_id \in MergeRunIds :
      \E vulns \in FindingLists(MaxMerged - Len(merged)) :
        /\ deduplicated_vulns' = deduplicate_and_merge(deduplicated_vulns, vulns, run_id)
        /\ merged' = merged \o Contributions(vulns, run_id)
        /\ UNCHANGED <<tree, files, pc, error, parsed, written, run_calls>>
        /\ UNCHANGED gen_vars

NextMerge == MergeCall

SpecMerge == InitMerge /\ [][NextMerge]_vars

(***************************************************************************)
(* Properties of the merge engine (checked under SpecMerge)                *)
(***************************************************************************)
\* the positions of the history that carry vuln_id k
MergedFor(k) == {i \in 1..Len(merged) : merged[i].vuln["vuln_id"] = k}

MergedIds == {merged[i].vuln["vuln_id"] : i \in 1..Len(merged)}

Entries == Range(deduplicated_vulns)

NoDuplicates(s) == \A i, j \in 1..Len(s) : s[i] = s[j] => i = j

\* a finding's own occurrence count: 1 when it carries none
OwnCount(vuln) == IF "occurrences" \in DOMAIN vuln THEN vuln["occurrences"] ELSE 1

RECURSIVE SumOwnCounts(_, _)
SumOwnCounts(k, n) ==
    IF n = 0 THEN 0
    ELSE (IF merged[n].vuln["vuln_id"] = k THEN OwnCount(merged[n].vuln) ELSE 0)
         + SumOwnCounts(k, n - 1)

C2_OccurrencesAreSums ==
    \A e \in Entries : e.value["occurrences"] = SumOwnCounts(e.key, Len(merged))

\* C2's case: an exact repeat in the same run and a finding that carries its own count
C2_Witness ==
    \E e \in Entries :
      /\ e.value["occurrences"] = 4
      /\ \E i, j \in MergedFor(e.key) : i # j /\ merged[i] = merged[j]
      /\ \E i \in MergedFor(e.key) : "occurrences" \in DOMAIN merged[i].vuln

\* C3: affected_components and pipeline_runs of every entry hold no duplicate,
\* and hold the component and the run_id of every finding merged under the
\* entry's vuln_id.
C3_DistinctAndComplete ==
    \A e \in Entries :
      /\ NoDuplicates(e.value["affected_components"])
      /\ NoDuplicates(e.value["pipeline_runs"])
      /\ \A i \in MergedFor(e.key) :
            /\ merged[i].vuln["affected_component"] \in Range(e.value["affected_components"])
            /\ merged[i].run_id \in Range(e.value["pipeline_runs"])

\* C3's case: three findings under one id, a component and a run seen twice
C3_Witness ==
    \E e \in Entries :
      /\ Cardinality(MergedFor(e.key)) = 3
      /\ Len(e.value["affected_components"]) = 2
      /\ Len(e.value["pipeline_runs"]) = 2

\* a populated (non-empty) scalar: not None, not the empty string, not a zero
\* score (the values Python's truth test takes as empty)
Populated(v) == v \notin {None, "", "0.0"}

FieldOf(d, field) == IF field \in DOMAIN d THEN d[field] ELSE None

Min(S) == CHOOSE x \in S : \A y \in S : x <= y

\* the positions of the history under vuln_id k whose finding carries a populated field
PopulatedFor(k, field) ==
    {i \in MergedFor(k) : Populated(FieldOf(merged[i].vuln, field))}

RECURSIVE Fold(_, _)
Fold(history, n) ==
    IF n = 0 THEN <<>>
    ELSE MergeOne(Fold(history, n - 1), history[n].vuln, history[n].run_id)

\* the history with positions i and i+1 exchanged
SwapAt(history, i) ==
    [j \in 1..Len(history) |->
        IF j = i THEN history[i + 1] ELSE IF j = i + 1 THEN history[i] ELSE history[j]]

\* what does not depend on the merge order: keys, occurrences, sets of runs and components
Summary(coll) ==
    { [key |-> e.key,
       occurrences |-> e.value["occurrences"],
       pipeline_runs |-> Range(e.value["pipeline_runs"]),
       affected_components |-> Range(e.value["affected_components"])] : e \in Range(coll) }

\* C7: merging the same findings in another order gives the same keys, the
\* same occurrences and the same sets of pipeline_runs and affected_components
\* per key. Stated for the exchange of any two neighbours of the history:
\* every sequence of findings is a history, and exchanges of neighbours
\* generate every reordering.
C7_OrderIndependentSummary ==
    \A i \in 1..(Len(merged) - 1) :
        Summary(Fold(SwapAt(merged, i), Len(merged))) = Summary(deduplicated_vulns)

\* C7's case: a reordering that changes a winning scalar and the order of a sequence
C7_Witness ==
    \E i \in 1..(Len(merged) - 1) :
      LET other == Fold(SwapAt(merged, i), Len(merged)) IN
      /\ Len(other) = 1 /\ Len(deduplicated_vulns) = 1
      /\ other[1].value["cvss_score"] # deduplicated_vulns[1].value["cvss_score"]
      /\ other[1].value["pipeline_runs"] # deduplicated_vulns[1].value["pipeline_runs"]

\* the vuln_ids of the findings merged by the step
StepIds == {merged'[i].vuln["vuln_id"] : i \in (Len(merged) + 1)..Len(merged')}

\* C9: a merge creates or changes only the entries of the vuln_ids it is given:
\* every other entry stays as it is, and every entry's affected_components
\* holds only components of findings that carry the entry's vuln_id.
C9_OtherIdsUntouched ==
    /\ [][/\ \A i \in 1..Len(deduplicated_vulns) :
                deduplicated_vulns[i].key \notin StepIds =>
                    /\ i <= Len(deduplicated_vulns')
                    /\ deduplicated_vulns'[i] = deduplicated_vulns[i]
          /\ \A j \in (Len(deduplicated_vulns) + 1)..Len(deduplicated_vulns') :
                deduplicated_vulns'[j].key \in StepIds]_vars
    /\ [](\A e \in Entries :
            Range(e.value["affected_components"]) \subseteq
                {merged[i].vuln["affected_component"] : i \in MergedFor(e.key)})

\* C9's case: two ids that name the same component are two entries of one component each
C9_Witness ==
    /\ Len(deduplicated_vulns) = 2
    /\ \A e \in Entries : e.value["affected_components"] = <<"openssl">>
    /\ \E i \in 1..Len(merged) : merged[i].vuln["vuln_id"] # merged[1].vuln["vuln_id"]

\* C22: merging an empty finding list into the collection, under any run_id,
\* gives the collection itself: the same keys in the same order with the same
\* entries.
C22_EmptyMergeIsIdentity ==
    \A run_id \in MergeRunIds :
        deduplicate_and_merge(deduplicated_vulns, <<>>, run_id) = deduplicated_vulns

\* C22's case: a collection of two entries, one of them merged from two
\* findings in one run, so the other run is new to both entries
C22_Witness ==
    /\ Len(deduplicated_vulns) = 2
    /\ Len(merged) = 3
    /\ \A e \in Entries : Len(e.value["pipeline_runs"]) = 1

\* s is a prefix of t
IsPrefix(s, t) == Len(s) <= Len(t) /\ SubSeq(t, 1, Len(s)) = s

\* C26: across every merge step each entry keeps its key and its place, its
\* affected_components and pipeline_runs before the step are prefixes of
\* those after it, and its occurrences does not decrease.
C26_OnlyGrows ==
    [][\A i \in 1..Len(deduplicated_vulns) :
          /\ i <= Len(deduplicated_vulns')
          /\ deduplicated_vulns'[i].key = deduplicated_vulns[i].key
          /\ IsPrefix(deduplicated_vulns[i].value["affected_components"],
                      deduplicated_vulns'[i].value["affected_components"])
          /\ IsPrefix(deduplicated_vulns[i].value["pipeline_runs"],
                      deduplicated_vulns'[i].value["pipeline_runs"])
          /\ deduplicated_vulns[i].value["occurrences"]
                <= deduplicated_vulns'[i].value["occurrences"]]_vars

\* C26's case: an entry that grew in a second call by a component and a run,
\* beside a second entry
C26_Witness ==
    /\ Len(deduplicated_vulns) = 2
    /\ \E e \in Entries :
          /\ Len(e.value["affected_components"]) = 2
          /\ Len(e.value["pipeline_runs"]) = 2
          /\ e.value["occurrences"] = 2

\* the first position of the history that carries vuln_id k
FirstFor(k) == Min(MergedFor(k))

\* the fields of an entry that no merge updates
FirstFindingFields == {"type", "title", "severity", "source"}

\* C27: type, title, severity and source of every entry are those of the
\* first finding merged under its vuln_id, and no merge step changes them in
\* an entry that exists.
C27_FirstFindingFields ==
    /\ [](\A e \in Entries : \A f \in FirstFindingFields :
            e.value[f] = merged[FirstFor(e.key)].vuln[f])
    /\ [][\A i \in 1..Len(deduplicated_vulns) : \A f \in FirstFindingFields :
            deduplicated_vulns'[i].value[f] = deduplicated_vulns[i].value[f]]_vars

\* C27's case: a Trivy finding without title, then a Grype finding of the
\* same id with a title: the entry keeps the empty title and the source trivy
C27_Witness ==
    \E e \in Entries :
        /\ e.value["title"] = None
        /\ e.value["source"] = "trivy"
        /\ \E i \in MergedFor(e.key) :
              /\ merged[i].vuln["source"] = "grype"
              /\ merged[i].vuln["title"] # None

\* C28: every entry's affected_components and pipeline_runs are non-empty
\* and neither is longer than the entry's occurrences (every merged finding
\* counts for at least 1).
C28_LengthsWithinOccurrences ==
    (\A i \in 1..Len(merged) : OwnCount(merged[i].vuln) >= 1) =>
        \A e \in Entries :
            /\ 1 <= Len(e.value["pipeline_runs"])
            /\ Len(e.value["pipeline_runs"]) <= e.value["occurrences"]
            /\ 1 <= Len(e.value["affected_components"])
            /\ Len(e.value["affected_components"]) <= e.value["occurrences"]

\* C28's case: three findings of one id from two components and two runs
C28_Witness ==
    \E e \in Entries :
        /\ e.value["occurrences"] = 3
        /\ Len(e.value["pipeline_runs"]) = 2
        /\ Len(e.value["affected_components"]) = 2

(***************************************************************************)
(* crawl_reports and detect_report_format                                  *)
(*                                                                         *)
(* A file is [above, parent, stem, ext, content]: the directory names      *)
(* above its immediate directory, the immediate directory's name as a      *)
(* sequence of characters, the file name split at its extension, and what  *)
(* json.load makes of it.                                                  *)
(***************************************************************************)
DecimalDigits == {"0", "1", "2", "3", "4", "5", "6", "7", "8", "9"}

\* a character str.isdigit() accepts and int() rejects
SuperscriptTwo == "SUPERSCRIPT TWO"

\* c.isdigit(): decimal characters and the digits that need special handling
IsDigitChar(c) == c \in DecimalDigits \cup {SuperscriptTwo}

\* pipeline_run.isdigit(): at least one character, all of them digits
isdigit(name) == Len(name) > 0 /\ \A i \in 1..Len(name) : IsDigitChar(name[i])

DigitValue(c) ==
    CASE c = "0" -> 0 [] c = "1" -> 1 [] c = "2" -> 2 [] c = "3" -> 3 [] c = "4" -> 4
      [] c = "5" -> 5 [] c = "6" -> 6 [] c = "7" -> 7 [] c = "8" -> 8 [] c = "9" -> 9

\* int(pipeline_run) raises ValueError unless every character is a decimal digit
IntRaises(name) == \E i \in 1..Len(name) : name[i] \notin DecimalDigits

\* int(pipeline_run) on a name of decimal digits
RECURSIVE int(_)
int(name) ==
    IF name = <<>> THEN 0
    ELSE 10 * int(SubSeq(name, 1, Len(name) - 1)) + DigitValue(name[Len(name)])

\* file_path.__contains__(marker), on the names that make up the path
PathContains(file, marker) == marker \in Range(file.above) \cup {file.stem}

\* variant of detect_report_format: an unmatched path is taken for a Trivy report
detect_report_format_DefaultsTrivy(file) ==
    IF PathContains(file, "sast-reports") THEN "semgrep"
    ELSE IF PathContains(file, "iac-scan") THEN "checkov"
    ELSE IF PathContains(file, "cve-reports") THEN "grype"
    ELSE IF PathContains(file, "dast-reports") THEN "owasp-zap"
    ELSE "trivy"

\* variant of detect_report_format: cve-reports is tested before the other markers
detect_report_format_GrypeFirst(file) ==
    IF PathContains(file, "cve-reports") THEN "grype"
    ELSE IF PathContains(file, "container-scan") THEN "trivy"
    ELSE IF PathContains(file, "sast-reports") THEN "semgrep"
    ELSE IF PathContains(file, "iac-scan") THEN "checkov"
    ELSE IF PathContains(file, "dast-reports") THEN "owasp-zap"
    ELSE None

detect_report_format(file) ==
    IF PathContains(file, "container-scan") THEN "trivy"
    ELSE IF PathContains(file, "sast-reports") THEN "semgrep"
    ELSE IF PathContains(file, "iac-scan") THEN "checkov"
    ELSE IF PathContains(file, "cve-reports") THEN "grype"
    ELSE IF PathContains(file, "dast-reports") THEN "owasp-zap"
    ELSE None

\* the loop of crawl_reports over the walk: the work list, or the error raised
RECURSIVE crawl_reports(_)
crawl_reports(walk) ==
    IF walk = <<>> THEN [error |-> None, files |-> <<>>]
    ELSE LET file == Head(walk) IN
         IF file.ext # ".json" \/ ~isdigit(file.parent) THEN crawl_reports(Tail(walk))
         ELSE IF IntRaises(file.parent) THEN [error |-> "ValueError", files |-> <<>>]
         ELSE LET rest == crawl_reports(Tail(walk)) IN
              IF rest.error # None THEN rest
              ELSE [error |-> None,
                    files |-> <<[file_path |-> file,
                                 report_type |-> detect_report_format(file),
                                 run_id |-> int(file.parent)]>> \o rest.files]

(***************************************************************************)
(* The extractors. A parsed JSON object is a dict (a function on its       *)
(* keys), a JSON array a sequence, null or a missing key None.             *)
(***************************************************************************)
EmptyDict == [x \in {} |-> None]

\* the concatenation of a list of lists: what the nested loops append, in order
RECURSIVE Flatten(_)
Flatten(lists) ==
    IF lists = <<>> THEN <<>>
    ELSE Head(lists) \o Flatten(Tail(lists))

\* [v for v in vulns if v.get('vuln_id') is not None]
RECURSIVE WithId(_)
WithId(vulns) ==
    IF vulns = <<>> THEN <<>>
    ELSE IF Get(Head(vulns), "vuln_id", None) # None
         THEN <<Head(vulns)>> \o WithId(Tail(vulns))
         ELSE WithId(Tail(vulns))

\* parse_owasp_zap's own filter, applied when it counted a finding without id
ZapFilter(vulns) == WithId(vulns)

\* variant of RunFilter: nothing is dropped
RunFilter_KeepsAll(vulns) == vulns

\* run()'s filter between parse_report and deduplicate_and_merge
RunFilter(vulns) == WithId(vulns)

\* text.split('\n')[0], on the texts that occur
FirstLine(text) == IF text = "d1\nmore" THEN "d1" ELSE text

\* text.upper(), on the texts that occur
Upper(text) ==
    CASE text = "info" -> "INFO"
      [] text = "warning" -> "WARNING"
      [] text = "error" -> "ERROR"
      [] text = "high" -> "HIGH"
      [] OTHER -> text

TrivyFinding(vuln) ==
    [vuln_id |-> Get(vuln, "VulnerabilityID", None),
     type |-> "vulnerability",
     title |-> Get(vuln, "Title", None),
     affected_component |-> Get(vuln, "PkgName", None),
     affected_version |-> Get(vuln, "InstalledVersion", None),
     severity |-> Get(vuln, "Severity", "UNKNOWN"),
     description |-> Get(vuln, "Description", None),
     cvss_score |-> Get(Get(Get(vuln, "CVSS", EmptyDict), "nvd", EmptyDict), "V3Score", None),
     fixed_version |-> Get(vuln, "FixedVersion", None),
     source |-> "trivy"]

TrivyResult(result) ==
    LET vulnerabilities == Get(result, "Vulnerabilities", <<>>) IN
    [i \in 1..Len(vulnerabilities) |-> TrivyFinding(vulnerabilities[i])]

\* parse_trivy after json.load: findings without an id are counted and returned
parse_trivy(data) ==
    LET results == Get(data, "Results", <<>>) IN
    Flatten([i \in 1..Len(results) |-> TrivyResult(results[i])])

GrypeFinding(match) ==
    LET vuln_data == Get(match, "vulnerability", EmptyDict)
        artifact == Get(match, "artifact", EmptyDict)
        cvss_data == Get(vuln_data, "cvss", <<>>)
        cwe_list == Get(vuln_data, "cwes", <<>>)
        fix_versions == Get(Get(vuln_data, "fix", EmptyDict), "versions", <<>>)
    IN  [vuln_id |-> Get(vuln_data, "id", None),
         type |-> "dependency",
         title |-> FirstLine(Get(vuln_data, "description", "")),
         affected_component |-> Get(artifact, "name", None),
         affected_version |-> Get(artifact, "version", None),
         severity |-> Get(vuln_data, "severity", "UNKNOWN"),
         description |-> Get(vuln_data, "description", None),
         cvss_score |-> IF cvss_data # <<>>
                        THEN Get(Get(cvss_data[1], "metrics", EmptyDict), "baseScore", None)
                        ELSE None,
         cwe |-> IF cwe_list # <<>> THEN Get(cwe_list[1], "cwe", None) ELSE None,
         fixed_version |-> IF fix_versions # <<>> THEN fix_versions[1] ELSE None,
         source |-> "grype"]

\* parse_grype after json.load
parse_grype(data) ==
    LET matches == Get(data, "matches", <<>>) IN
    [i \in 1..Len(matches) |-> GrypeFinding(matches[i])]

\* variant of CheckovSeverity: the table holds 'failed' only
CheckovSeverity_FailedOnly(severity) ==
    CASE severity = "failed" -> "HIGH"
      [] OTHER -> "MEDIUM"

\* severity_map.get(severity, 'MEDIUM') of parse_checkov
CheckovSeverity(severity) ==
    CASE severity = "passed" -> "LOW"
      [] severity = "failed" -> "HIGH"
      [] OTHER -> "MEDIUM"

CheckovFinding(result) ==
    [vuln_id |-> Get(result, "check_id", None),
     type |-> "iac_violation",
     title |-> Get(result, "check_name", None),
     affected_component |-> Get(result, "resource", None),
     affected_file |-> Get(result, "file_path", None),
     severity |-> CheckovSeverity(Get(Get(result, "check_result", EmptyDict), "result", "UNKNOWN")),
     description |-> Get(result, "description", None),
     cvss_score |-> None,
     cwe |-> None,
     fixed_version |-> None,
     source |-> "checkov"]

\* parse_checkov after json.load
parse_checkov(data) ==
    LET failed_checks == Get(Get(data, "results", EmptyDict), "failed_checks", <<>>) IN
    [i \in 1..Len(failed_checks) |-> CheckovFinding(failed_checks[i])]

\* variant of SemgrepSeverity: the default of the table is LOW
SemgrepSeverity_DefaultLow(severity) ==
    CASE severity = "INFO" -> "LOW"
      [] severity = "WARNING" -> "MEDIUM"
      [] severity = "ERROR" -> "HIGH"
      [] OTHER -> "LOW"

\* severity_map.get(severity, 'MEDIUM') of parse_semgrep
SemgrepSeverity(severity) ==
    CASE severity = "INFO" -> "LOW"
      [] severity = "WARNING" -> "MEDIUM"
      [] severity = "ERROR" -> "HIGH"
      [] OTHER -> "MEDIUM"

SemgrepFinding(result) ==
    [vuln_id |-> Get(result, "check_id", None),
     type |-> "sast_finding",
     title |-> Get(result, "check_id", None),
     affected_component |-> Get(result, "path", None),
     affected_line |-> Get(Get(result, "start", EmptyDict), "line", None),
     severity |-> SemgrepSeverity(Upper(Get(Get(result, "extra", EmptyDict), "severity", "INFO"))),
     description |-> Get(Get(result, "extra", EmptyDict), "message", ""),
     cvss_score |-> None,
     cwe |-> None,
     fixed_version |-> None,
     source |-> "semgrep"]

\* parse_semgrep after json.load
parse_semgrep(data) ==
    LET results == Get(data, "results", <<>>) IN
    [i \in 1..Len(results) |-> SemgrepFinding(results[i])]

ZapFinding(site, alert) ==
    [vuln_id |-> Get(alert, "pluginid", None),
     type |-> "dast_finding",
     title |-> Get(alert, "name", None),
     affected_component |-> Get(site, "name", None),
     affected_url |-> Get(alert, "url", None),
     severity |-> IF Truthy(Get(alert, "riskcode", None))
                  THEN Upper(alert["riskcode"])
                  ELSE "MEDIUM",
     description |-> Get(alert, "desc", None),
     cvss_score |-> None,
     cwe |-> Get(alert, "cwe", None),
     fixed_version |-> None,
     source |-> "owasp-zap"]

ZapSite(site) ==
    LET alerts == Get(site, "alerts", <<>>) IN
    [i \in 1..Len(alerts) |-> ZapFinding(site, alerts[i])]

\* parse_owasp_zap after json.load: findings without an id are dropped here
parse_owasp_zap(data) ==
    LET sites == Get(data, "site", <<>>) IN
    ZapFilter(Flatten([i \in 1..Len(sites) |-> ZapSite(sites[i])]))

\* variant of parse_report: every extractor catches the error of json.load
parse_report_CatchesAll(file, report_type) ==
    IF report_type \notin {"trivy", "grype", "checkov", "semgrep", "owasp-zap"}
       \/ ~file.content.valid
    THEN [error |-> None, vulns |-> <<>>]
    ELSE [error |-> None,
          vulns |-> CASE report_type = "trivy" -> parse_trivy(file.content.data)
                      [] report_type = "grype" -> parse_grype(file.content.data)
                      [] report_type = "checkov" -> parse_checkov(file.content.data)
                      [] report_type = "semgrep" -> parse_semgrep(file.content.data)
                      [] report_type = "owasp-zap" -> parse_owasp_zap(file.content.data)]

\* variant of parse_report: no extractor catches the error of json.load
parse_report_ZapRaises(file, report_type) ==
    IF report_type \notin {"trivy", "grype", "checkov", "semgrep", "owasp-zap"}
    THEN [error |-> None, vulns |-> <<>>]
    ELSE IF ~file.content.valid
    THEN [error |-> "JSONDecodeError", vulns |-> <<>>]
    ELSE [error |-> None,
          vulns |-> CASE report_type = "trivy" -> parse_trivy(file.content.data)
                      [] report_type = "grype" -> parse_grype(file.content.data)
                      [] report_type = "checkov" -> parse_checkov(file.content.data)
                      [] report_type = "semgrep" -> parse_semgrep(file.content.data)
                      [] report_type = "owasp-zap" -> parse_owasp_zap(file.content.data)]

\* parse_report: the findings of a file, or the error json.load raises; only
\* parse_owasp_zap catches it, and an unmatched report_type opens nothing
parse_report(file, report_type) ==
    IF report_type \notin {"trivy", "grype", "checkov", "semgrep", "owasp-zap"}
    THEN [error |-> None, vulns |-> <<>>]
    ELSE IF ~file.content.valid
    THEN IF report_type = "owasp-zap"
         THEN [error |-> None, vulns |-> <<>>]
         ELSE [error |-> "JSONDecodeError", vulns |-> <<>>]
    ELSE [error |-> None,
          vulns |-> CASE report_type = "trivy" -> parse_trivy(file.content.data)
                      [] report_type = "grype" -> parse_grype(file.content.data)
                      [] report_type = "checkov" -> parse_checkov(file.content.data)
                      [] report_type = "semgrep" -> parse_semgrep(file.content.data)
                      [] report_type = "owasp-zap" -> parse_owasp_zap(file.content.data)]

(***************************************************************************)
(* The report trees                                                        *)
(***************************************************************************)
Json(data) == [valid |-> TRUE, data |-> data]

\* a file json.load raises JSONDecodeError on
Malformed == [valid |-> FALSE, data |-> EmptyDict]

TrivyVuln(id, pkg) ==
    [VulnerabilityID |-> id, PkgName |-> pkg, Title |-> "t1", InstalledVersion |-> "1.0",
     Severity |-> "HIGH", CVSS |-> [nvd |-> [V3Score |-> "7.5"]]]

\* one vulnerability
TrivyOne == Json([Results |-> <<[Vulnerabilities |-> <<TrivyVuln("CVE-1", "openssl")>>]>>])

\* two vulnerabilities of one package
TrivyTwo ==
    Json([Results |-> <<[Vulnerabilities |->
            <<TrivyVuln("CVE-1", "openssl"), TrivyVuln("CVE-2", "openssl")>>]>>])

\* a vulnerability without VulnerabilityID, then one with
TrivyNoId ==
    Json([Results |-> <<[Vulnerabilities |-> <<[PkgName |-> "openssl", Severity |-> "LOW"]>>],
                        [Vulnerabilities |-> <<TrivyVuln("CVE-2", "zlib")>>]>>])

GrypeMatch(id, name) ==
    [vulnerability |-> [id |-> id, description |-> "d1\nmore", severity |-> "Critical",
                        cvss |-> <<[metrics |-> [baseScore |-> "9.0"]]>>,
                        cwes |-> <<[cwe |-> "CWE-79"]>>,
                        fix |-> [versions |-> <<"1.1.1">>]],
     artifact |-> [name |-> name, version |-> "1.0"]]

GrypeOne == Json([matches |-> <<GrypeMatch("CVE-1", "openssl")>>])

\* a match without vulnerability.id, then one with
GrypeNoId ==
    Json([matches |-> <<[vulnerability |-> [severity |-> "Low"],
                         artifact |-> [name |-> "zlib"]],
                        GrypeMatch("CVE-2", "zlib")>>])

ZapAlert(pluginid) == [pluginid |-> pluginid, name |-> "t5", riskcode |-> "high", desc |-> "d2"]

ZapOne == Json([site |-> <<[name |-> "site-a", alerts |-> <<ZapAlert("10020")>>]>>])

\* an alert without pluginid, then one with
ZapNoId ==
    Json([site |-> <<[name |-> "site-a", alerts |-> <<[name |-> "t5"], ZapAlert("10020")>>]>>])

SemgrepOne ==
    Json([results |-> <<[check_id |-> "rule-1", path |-> "app.py",
                         start |-> [line |-> "10"],
                         extra |-> [severity |-> "warning", message |-> "d3"]]>>])

CheckovOne ==
    Json([results |-> [failed_checks |->
            <<[check_id |-> "CKV-1", check_name |-> "t6", resource |-> "aws_s3.b",
               file_path |-> "main.tf", check_result |-> [result |-> "failed"]]>>]])

ReportFile(above, parent, stem, ext, content) ==
    [above |-> above, parent |-> parent, stem |-> stem, ext |-> ext, content |-> content]

\* the contents found under each scanner's directory
ContentsUnder(dir) ==
    CASE dir = "container-scan" -> {TrivyOne, TrivyTwo, TrivyNoId, Malformed}
      [] dir = "cve-reports" -> {GrypeOne, GrypeNoId, Malformed}
      [] dir = "dast-reports" -> {ZapOne, ZapNoId, Malformed}
      [] dir = "sast-reports" -> {SemgrepOne, Malformed}
      [] dir = "iac-scan" -> {CheckovOne, Malformed}
      [] OTHER -> {TrivyOne, Malformed}

ScannerDirs ==
    {"container-scan", "cve-reports", "dast-reports", "sast-reports", "iac-scan", "misc"}

\* run directories "12" and "13"
RunDirs == {<<"1", "2">>, <<"1", "3">>}

ReportFiles ==
    { ReportFile(<<"brut", dc[1]>>, run, "a", ".json", dc[2]) :
          dc \in UNION {{<<d, c>> : c \in ContentsUnder(d)} : d \in ScannerDirs},
          run \in RunDirs }
    \cup
    { ReportFile(<<"brut", "container-scan">>, <<"l", "a", "t", "e", "s", "t">>, "a", ".json", TrivyOne),
      ReportFile(<<"brut", "container-scan">>, <<SuperscriptTwo>>, "a", ".json", TrivyOne),
      ReportFile(<<"brut", "container-scan">>, <<"0", "1", "2">>, "a", ".json", TrivyOne),
      ReportFile(<<"brut", "container-scan">>, <<"1", "2">>, "notes", ".txt", TrivyOne),
      ReportFile(<<"brut", "container-scan">>, <<"1", "2">>, "b", ".json", TrivyOne) }

SameDir(f, g) == f.above = g.above /\ f.parent = g.parent

SamePath(f, g) == SameDir(f, g) /\ f.stem = g.stem /\ f.ext = g.ext

\* os.walk yields each path once, the files of a directory together and the
\* directories under one directory together; the order is the file system's
IsWalk(walk) ==
    /\ \A i, j \in 1..Len(walk) : SamePath(walk[i], walk[j]) => i = j
    /\ \A i, j, k \in 1..Len(walk) :
          i < j /\ j < k =>
            /\ SameDir(walk[i], walk[k]) => SameDir(walk[i], walk[j])
            /\ walk[i].above = walk[k].above => walk[i].above = walk[j].above

Trees == { walk \in UNION { [1..n -> ReportFiles] : n \in 0..MaxFiles } : IsWalk(walk) }

(***************************************************************************)
(* Spec: run() on one parser over an unchanged tree                        *)
(***************************************************************************)
Init ==
    /\ deduplicated_vulns = <<>>
    /\ merged = <<>>
    /\ tree \in Trees
    /\ files = <<>>
    /\ pc = "idle"
    /\ error = None
    /\ parsed = <<>>
    /\ written = <<>>
    /\ run_calls = 0
    /\ NoGenerator

\* run() is invoked: files = self.crawl_reports()
RunCrawl ==
    /\ pc \in {"idle", "done"}
    /\ run_calls < MaxRunCalls
    /\ run_calls' = run_calls + 1
    /\ LET crawl == crawl_reports(tree) IN
       /\ files' = crawl.files
       /\ error' = crawl.error
       /\ pc' = IF crawl.error # None THEN "raised" ELSE "loop"
    /\ UNCHANGED <<deduplicated_vulns, merged, tree, parsed, written>>
    /\ UNCHANGED gen_vars

\* one iteration of the loop of run(): parse, drop the findings without id, merge
RunFile ==
    /\ pc = "loop"
    /\ files # <<>>
    /\ LET item == Head(files)
           report == parse_report(item.file_path, item.report_type)
           vulns == RunFilter(report.vulns)
       IN IF report.error # None
          THEN /\ pc' = "raised"
               /\ error' = report.error
               /\ UNCHANGED <<deduplicated_vulns, merged, files, parsed>>
          ELSE /\ deduplicated_vulns' = deduplicate_and_merge(deduplicated_vulns, vulns, item.run_id)
               /\ merged' = merged \o Contributions(vulns, item.run_id)
               /\ parsed' = parsed \o report.vulns
               /\ files' = Tail(files)
               /\ UNCHANGED <<pc, error>>
    /\ UNCHANGED <<tree, written, run_calls>>
    /\ UNCHANGED gen_vars

\* self.save_parsed_reports(), after the loop
RunSave ==
    /\ pc = "loop"
    /\ files = <<>>
    /\ written' = Append(written, Values(deduplicated_vulns))
    /\ pc' = "done"
    /\ UNCHANGED <<deduplicated_vulns, merged, tree, files, error, parsed, run_calls>>
    /\ UNCHANGED gen_vars

Next == RunCrawl \/ RunFile \/ RunSave

Spec == Init /\ [][Next]_vars

(***************************************************************************)
(* Properties of run() (checked under Spec)                                *)
(***************************************************************************)
\* the elements of every array written so far
WrittenElements == UNION {Range(written[i]) : i \in 1..Len(written)}

\* the findings the extractors returned under vuln_id k
ParsedFor(k) == {i \in 1..Len(parsed) : parsed[i]["vuln_id"] = k}

\* C5: no finding without vuln_id reaches the merge, the collection or the
\* written output: the findings merged are the parsed ones that have an id,
\* no key and no written element is None, and every entry counts exactly
\* the parsed findings of its own id.
C5_NoFindingWithoutId ==
    /\ \A i \in 1..Len(merged) : merged[i].vuln["vuln_id"] # None
    /\ Len(merged) = Cardinality({i \in 1..Len(parsed) : parsed[i]["vuln_id"] # None})
    /\ \A e \in Entries :
          /\ e.key # None
          /\ e.value["vuln_id"] # None
          /\ e.value["occurrences"] = Cardinality(ParsedFor(e.key))
    /\ \A v \in WrittenElements : v["vuln_id"] # None

\* C5's case: run() completed over a tree where an extractor returned a finding without id
C5_Witness ==
    /\ pc = "done"
    /\ \E i \in 1..Len(parsed) : parsed[i]["vuln_id"] = None
    /\ written # <<>> /\ written[Len(written)] # <<>>

\* C6: a second run() on the same parser over the unchanged tree writes what
\* the first one wrote.
C6_SecondRunSameResult ==
    Len(written) = 2 => written[2] = written[1]

TrivyUnder12 == ReportFile(<<"brut", "container-scan">>, <<"1", "2">>, "a", ".json", TrivyOne)

GrypeUnder13 == ReportFile(<<"brut", "cve-reports">>, <<"1", "3">>, "a", ".json", GrypeOne)

\* one run() completed over the tree of the two reports, visited in either order
C8_Scenario ==
    /\ tree \in {<<TrivyUnder12, GrypeUnder13>>, <<GrypeUnder13, TrivyUnder12>>}
    /\ pc = "done"
    /\ run_calls = 1

\* C8 as stated: in either visit order the one entry has pipeline_runs = [12, 13]
C8_RunsTwelveThirteen ==
    C8_Scenario =>
        /\ Len(deduplicated_vulns) = 1
        /\ deduplicated_vulns[1].key = "CVE-1"
        /\ deduplicated_vulns[1].value["pipeline_runs"] = <<12, 13>>
        /\ deduplicated_vulns[1].value["occurrences"] = 2

\* C8 amended: the same id in a Trivy report under "12" and a Grype report
\* under "13" gives one entry with occurrences = 2 whose pipeline_runs holds
\* 12 and 13 in the order the crawl visited the two files.
C8_RunsInVisitOrder ==
    C8_Scenario =>
        /\ Len(deduplicated_vulns) = 1
        /\ deduplicated_vulns[1].key = "CVE-1"
        /\ deduplicated_vulns[1].value["occurrences"] = 2
        /\ deduplicated_vulns[1].value["pipeline_runs"] =
              IF tree[1] = TrivyUnder12 THEN <<12, 13>> ELSE <<13, 12>>

\* C8's case: the Grype report under "13" was visited first
C8_Witness ==
    /\ C8_Scenario
    /\ deduplicated_vulns[1].value["pipeline_runs"] = <<13, 12>>

\* a name that consists only of decimal digits
OnlyDecimalDigits(name) ==
    /\ name # <<>>
    /\ \A i \in 1..Len(name) :
          name[i] \in {"0", "1", "2", "3", "4", "5", "6", "7", "8", "9"}

RECURSIVE DecimalValue(_)
DecimalValue(name) ==
    IF name = <<>> THEN 0
    ELSE 10 * DecimalValue(SubSeq(name, 1, Len(name) - 1))
         + (CHOOSE d \in 0..9 :
              name[Len(name)] = <<"0", "1", "2", "3", "4", "5", "6", "7", "8", "9">>[d + 1])

\* the .json files of a walk whose directory name is a decimal number, with that number
RECURSIVE DecimalDirFiles(_)
DecimalDirFiles(walk) ==
    IF walk = <<>> THEN <<>>
    ELSE IF Head(walk).ext = ".json" /\ OnlyDecimalDigits(Head(walk).parent)
         THEN <<[file |-> Head(walk), run_id |-> DecimalValue(Head(walk).parent)]>>
              \o DecimalDirFiles(Tail(walk))
         ELSE DecimalDirFiles(Tail(walk))

\* C10: the crawl raises no error and its work list holds exactly the .json
\* files whose immediate directory name consists only of decimal digits,
\* each with that name's integer value as run id; a file under any other
\* directory is left out.
C10_WorkListIsDecimalDirs ==
    [][run_calls' = run_calls + 1 =>
          /\ error' = None
          /\ [i \in 1..Len(files') |-> [file |-> files'[i].file_path, run_id |-> files'[i].run_id]]
                = DecimalDirFiles(tree)]_vars

(***************************************************************************)
(* Error handling and the write of run() (checked under Spec)              *)
(***************************************************************************)
\* the next file of the work list does not parse as JSON
NextFileMalformed == pc = "loop" /\ files # <<>> /\ ~Head(files).file_path.content.valid

\* the path names one of the five scanner directories
HasMarker(file) ==
    \E marker \in {"container-scan", "sast-reports", "iac-scan", "cve-reports", "dast-reports"} :
        marker \in Range(file.above) \cup {file.stem}

\* the arrays written before the running invocation of run() began
WrittenBefore == IF pc \in {"idle", "done"} THEN run_calls ELSE run_calls - 1

\* C11: when the next file is a trivy, grype, checkov or semgrep report that
\* does not parse as JSON, run() ends with the error: the file and every later
\* one stay unparsed and unmerged, nothing is written by that invocation, and
\* no step of run() follows.
C11_MalformedAborts ==
    /\ [](pc = "raised" => Len(written) = run_calls - 1)
    /\ [][/\ (NextFileMalformed
               /\ Head(files).report_type \in {"trivy", "grype", "checkov", "semgrep"})
             => /\ pc' = "raised"
                /\ error' = "JSONDecodeError"
                /\ UNCHANGED <<deduplicated_vulns, merged, files, parsed, written>>
          /\ pc = "raised" => UNCHANGED parser_vars]_vars

\* C11's case: run() ended on a malformed file with another file behind it
C11_Witness ==
    /\ pc = "raised"
    /\ error = "JSONDecodeError"
    /\ Len(files) >= 2
    /\ Head(files).report_type \in {"trivy", "grype", "checkov", "semgrep"}
    /\ written = <<>>

\* C12: an owasp-zap report that does not parse as JSON raises nothing and
\* leaves the collection as it was; run() goes on with the rest of the work
\* list, and a run() that raised nowhere else ends with the write.
C12_ZapMalformedSkipped ==
    /\ [][(NextFileMalformed /\ Head(files).report_type = "owasp-zap")
             => /\ pc' = "loop"
                /\ error' = None
                /\ files' = Tail(files)
                /\ UNCHANGED <<deduplicated_vulns, merged, parsed, written>>]_vars
    /\ [](pc = "loop" /\ files = <<>> => ENABLED RunSave)

\* C12's case: run() completed over a malformed owasp-zap report followed by
\* a report whose finding was merged and written
C12_Witness ==
    /\ pc = "done"
    /\ Len(tree) = 2
    /\ "dast-reports" \in Range(tree[1].above)
    /\ ~tree[1].content.valid
    /\ isdigit(tree[1].parent)
    /\ merged # <<>>
    /\ written # <<>> /\ written[Len(written)] # <<>>

\* the findings parse_report returns over a work list
RECURSIVE ReturnedOver(_)
ReturnedOver(work) ==
    IF work = <<>> THEN 0
    ELSE Len(parse_report(Head(work).file_path, Head(work).report_type).vulns)
         + ReturnedOver(Tail(work))

\* the distinct vuln_ids of a history, in the order of their first merge
RECURSIVE FirstMerged(_)
FirstMerged(history) ==
    IF history = <<>> THEN <<>>
    ELSE LET before == FirstMerged(SubSeq(history, 1, Len(history) - 1))
             id == history[Len(history)].vuln["vuln_id"]
         IN  IF id \in Range(before) THEN before ELSE Append(before, id)

\* C13: every invocation of run() that completes writes exactly once, and the
\* write happens when the work list is used up and every file of it has been
\* parsed and merged; the array written has one element per key of the
\* collection, each with its vuln_id, in the order of the first merge of
\* each vuln_id.
C13_WrittenOnceAfterAll ==
    /\ [](Len(written) = WrittenBefore)
    /\ [][written' # written =>
            /\ pc = "loop" /\ files = <<>> /\ pc' = "done"
            /\ Len(parsed) = run_calls * ReturnedOver(crawl_reports(tree).files)
            /\ \E array \in {Values(deduplicated_vulns)} :
                  /\ written' = Append(written, array)
                  /\ Len(array) = Len(deduplicated_vulns)
                  /\ [i \in 1..Len(array) |-> array[i]["vuln_id"]] = FirstMerged(merged)
                  /\ \A i \in 1..Len(array) : array[i]["vuln_id"] = deduplicated_vulns[i].key
                  /\ NoDuplicates([i \in 1..Len(array) |-> array[i]["vuln_id"]])]_vars

\* C13's case: run() completed over two files and wrote two entries, the
\* first file's first
C13_Witness ==
    /\ pc = "done"
    /\ run_calls = 1
    /\ Len(written) = 1
    /\ Len(written[1]) = 2
    /\ Len(crawl_reports(tree).files) = 2
    /\ written[1][1]["vuln_id"] = merged[1].vuln["vuln_id"]

RecordsOf(item) ==
    LET data == item.file_path.content.data IN
    CASE item.report_type = "trivy" ->
           Flatten([i \in 1..Len(Get(data, "Results", <<>>)) |->
                       Get(data["Results"][i], "Vulnerabilities", <<>>)])
      [] item.report_type = "grype" -> Get(data, "matches", <<>>)
      [] item.report_type = "checkov" ->
           Get(Get(data, "results", EmptyDict), "failed_checks", <<>>)
      [] item.report_type = "semgrep" -> Get(data, "results", <<>>)
      [] item.report_type = "owasp-zap" ->
           Flatten([i \in 1..Len(Get(data, "site", <<>>)) |->
                       Get(data["site"][i], "alerts", <<>>)])
      [] OTHER -> <<>>

\* C15: every extractor returns one finding per record of the report, the
\* records without id included; only run() drops them.
C15_ExtractorsReturnAll ==
    [][(pc = "loop" /\ files # <<>> /\ Head(files).file_path.content.valid)
          => Len(parsed') = Len(parsed) + Len(RecordsOf(Head(files)))]_vars

(***************************************************************************)
(* SpecReport: run() over a tree that holds one report, whose path names   *)
(* several markers or whose Semgrep or Checkov results vary in severity    *)
(***************************************************************************)
\* the directories below brut_dir on the way to the run directory
MarkedDirs ==
    { dirs \in UNION { [1..n -> ScannerDirs] : n \in 1..MaxMarkers } :
          \A i, j \in 1..Len(dirs) : dirs[i] = dirs[j] => i = j }

\* report files whose file name may itself be a marker
MarkedFiles ==
    { ReportFile(<<"brut">> \o dirs, <<"1", "2">>, stem, ".json", TrivyOne) :
          dirs \in MarkedDirs, stem \in {"a", "cve-reports", "container-scan"} }

SemgrepResult(extra) ==
    [check_id |-> "rule-1", path |-> "app.py", start |-> [line |-> "10"], extra |-> extra]

\* results with extra.severity, with extra but no severity, and without extra
SemgrepResults ==
    { SemgrepResult([severity |-> severity, message |-> "d3"]) :
          severity \in {"INFO", "WARNING", "ERROR", "info", "error", "CRITICAL"} }
    \cup { SemgrepResult([message |-> "d3"]),
           [check_id |-> "rule-1", path |-> "app.py", start |-> [line |-> "10"]] }

SemgrepFiles ==
    { ReportFile(<<"brut", "sast-reports">>, <<"1", "2">>, "a", ".json", Json([results |-> results])) :
          results \in UNION { [1..n -> SemgrepResults] : n \in 0..MaxResults } }

CheckovCheck(check_result) ==
    [check_id |-> "CKV-1", check_name |-> "t6", resource |-> "aws_s3.b",
     file_path |-> "main.tf", check_result |-> check_result]

\* checks with check_result.result, with check_result but no result, and
\* without check_result
CheckovChecks ==
    { CheckovCheck([result |-> result]) : result \in {"failed", "passed", "skipped", "FAILED"} }
    \cup { CheckovCheck([evaluated_keys |-> <<>>]),
           [check_id |-> "CKV-1", check_name |-> "t6", resource |-> "aws_s3.b",
            file_path |-> "main.tf"] }

CheckovFiles ==
    { ReportFile(<<"brut", "iac-scan">>, <<"1", "2">>, "a", ".json",
                 Json([results |-> [failed_checks |-> checks]])) :
          checks \in UNION { [1..n -> CheckovChecks] : n \in 0..MaxResults } }

OneReportTrees == { <<file>> : file \in MarkedFiles \cup SemgrepFiles \cup CheckovFiles }

InitReport ==
    /\ deduplicated_vulns = <<>>
    /\ merged = <<>>
    /\ tree \in OneReportTrees
    /\ files = <<>>
    /\ pc = "idle"
    /\ error = None
    /\ parsed = <<>>
    /\ written = <<>>
    /\ run_calls = 0
    /\ NoGenerator

SpecReport == InitReport /\ [][Next]_vars

(***************************************************************************)
(* Properties of the classifier and of the Semgrep and Checkov extractors  *)
(* (checked under SpecReport)                                              *)
(***************************************************************************)
MarkerPriority == <<"container-scan", "sast-reports", "iac-scan", "cve-reports", "dast-reports">>

MarkerTags == <<"trivy", "semgrep", "checkov", "grype", "owasp-zap">>

\* the ranks of the markers that occur as a name of the path
MarkersIn(file) ==
    { i \in 1..Len(MarkerPriority) : MarkerPriority[i] \in Range(file.above) \cup {file.stem} }

NextItemIs(report_type) ==
    /\ pc = "loop"
    /\ files # <<>>
    /\ Head(files).report_type = report_type
    /\ Head(files).file_path.content.valid

\* extra.severity as the report states it, None when it states none
StatedSeverity(result) ==
    IF "extra" \in DOMAIN result /\ "severity" \in DOMAIN result["extra"]
    THEN result["extra"]["severity"]
    ELSE None

\* INFO, WARNING and ERROR in either case go to LOW, MEDIUM and HIGH, and
\* everything else, a missing severity too, to MEDIUM
SeverityWithDefaultMedium(result) ==
    CASE StatedSeverity(result) \in {"INFO", "info"} -> "LOW"
      [] StatedSeverity(result) \in {"WARNING", "warning"} -> "MEDIUM"
      [] StatedSeverity(result) \in {"ERROR", "error"} -> "HIGH"
      [] OTHER -> "MEDIUM"

\* as before, but a missing severity goes to LOW
SeverityWithAbsentLow(result) ==
    IF StatedSeverity(result) = None THEN "LOW" ELSE SeverityWithDefaultMedium(result)

\* the results[] of the report that is parsed next
NextResults == Get(Head(files).file_path.content.data, "results", <<>>)

\* C24 as stated: parse_semgrep gives INFO LOW, WARNING MEDIUM, ERROR HIGH,
\* and every result of another severity or of no severity MEDIUM.
C24_DefaultMedium ==
    [][NextItemIs("semgrep") =>
          /\ Len(parsed') = Len(parsed) + Len(NextResults)
          /\ \A i \in 1..Len(NextResults) :
                parsed'[Len(parsed) + i].severity = SeverityWithDefaultMedium(NextResults[i])]_vars

\* C24 as amended: parse_semgrep gives INFO LOW, WARNING MEDIUM, ERROR HIGH
\* (in either case) and every result of another severity MEDIUM; a result
\* that carries no severity is read as INFO and gets LOW.
C24_AbsentIsInfo ==
    [][NextItemIs("semgrep") =>
          /\ Len(parsed') = Len(parsed) + Len(NextResults)
          /\ \A i \in 1..Len(NextResults) :
                parsed'[Len(parsed) + i].severity = SeverityWithAbsentLow(NextResults[i])]_vars

\* a report of a result without severity and one of severity CRITICAL has
\* been parsed into a LOW and a MEDIUM finding
C24_Witness ==
    /\ tree[1].above = <<"brut", "sast-reports">>
    /\ LET results == Get(tree[1].content.data, "results", <<>>) IN
          /\ Len(results) = 2
          /\ StatedSeverity(results[1]) = None
          /\ StatedSeverity(results[2]) = "CRITICAL"
    /\ Len(parsed) >= 2
    /\ parsed[1].source = "semgrep" /\ parsed[1].severity = "LOW"
    /\ parsed[2].source = "semgrep" /\ parsed[2].severity = "MEDIUM"

\* check_result.result as the report states it, None when it states none
StatedResult(check) ==
    IF "check_result" \in DOMAIN check /\ "result" \in DOMAIN check["check_result"]
    THEN check["check_result"]["result"]
    ELSE None

\* the results.failed_checks[] of the report that is parsed next
NextFailedChecks ==
    Get(Get(Head(files).file_path.content.data, "results", EmptyDict), "failed_checks", <<>>)

\* C25: parse_checkov returns one finding per element of
\* results.failed_checks, of severity HIGH where check_result.result is
\* "failed", LOW where it is "passed", and MEDIUM for every other value and
\* for an absent one.
C25_CheckovSeverity ==
    [][NextItemIs("checkov") =>
          /\ Len(parsed') = Len(parsed) + Len(NextFailedChecks)
          /\ \A i \in 1..Len(NextFailedChecks) :
                parsed'[Len(parsed) + i].severity
                    = CASE StatedResult(NextFailedChecks[i]) = "failed" -> "HIGH"
                        [] StatedResult(NextFailedChecks[i]) = "passed" -> "LOW"
                        [] OTHER -> "MEDIUM"]_vars

\* a report of a passed check and a check without check_result has been
\* parsed into a LOW and a MEDIUM finding
C25_Witness ==
    /\ tree[1].above = <<"brut", "iac-scan">>
    /\ LET checks == Get(Get(tree[1].content.data, "results", EmptyDict), "failed_checks", <<>>) IN
          /\ Len(checks) = 2
          /\ StatedResult(checks[1]) = "passed"
          /\ "check_result" \notin DOMAIN checks[2]
    /\ Len(parsed) >= 2
    /\ parsed[1].source = "checkov" /\ parsed[1].severity = "LOW"
    /\ parsed[2].source = "checkov" /\ parsed[2].severity = "MEDIUM"

(***************************************************************************)
(* The generators. A str that is compared or searched is the sequence of   *)
(* its characters. Durations, latencies and rates are left out of the      *)
(* metadata.                                                               *)
(***************************************************************************)
\* ord(c), for the characters of the policy keys
CodePoint(c) ==
    CASE c = "-" -> 45
      [] c = "0" -> 48
      [] c = "1" -> 49
      [] c = "2" -> 50
      [] c = "C" -> 67
      [] c = "E" -> 69
      [] c = "V" -> 86

\* a < b on str
RECURSIVE StrLess(_, _)
StrLess(a, b) ==
    IF b = <<>> THEN FALSE
    ELSE IF a = <<>> THEN TRUE
    ELSE IF Head(a) = Head(b) THEN StrLess(Tail(a), Tail(b))
    ELSE CodePoint(Head(a)) < CodePoint(Head(b))

\* variant of sorted: the file order is kept
sorted_FileOrder(keys) == keys

\* sorted(policies_raw.items()): the keys of a dict are distinct, so the
\* values are never compared
RECURSIVE sorted(_)
sorted(keys) ==
    IF keys = <<>> THEN <<>>
    ELSE LET least == CHOOSE k \in Range(keys) :
                         \A other \in Range(keys) \ {k} : StrLess(k, other)
         IN  <<least>> \o sorted(SelectSeq(keys, LAMBDA k : k # least))

\* items[:limit]
Slice(items, limit) == SubSeq(items, 1, IF limit < Len(items) THEN limit ELSE Len(items))

\* pattern in text
Contains(text, pattern) ==
    \E i \in 0..(Len(text) - Len(pattern)) : SubSeq(text, i + 1, i + Len(pattern)) = pattern

Llama31 == <<"l", "l", "a", "m", "a", "3", ".", "1">>

Llama31_8b == <<"l", "l", "a", "m", "a", "3", ".", "1", ":", "8", "b">>

DeepseekR1_8b == <<"d", "e", "e", "p", "s", "e", "e", "k", "-", "r", "1", ":", "8", "b">>

DeepseekR1_14b == <<"d", "e", "e", "p", "s", "e", "e", "k", "-", "r", "1", ":", "1", "4", "b">>

GptOss20b == <<"g", "p", "t", "-", "o", "s", "s", ":", "2", "0", "b">>

Mistral == <<"m", "i", "s", "t", "r", "a", "l">>

Models == {Llama31, Llama31_8b, DeepseekR1_8b, DeepseekR1_14b, GptOss20b, Mistral}

EXPERIMENT_1_TIMEOUT == 300

MODEL_TIMEOUTS_EXP2 ==
    <<[pattern |-> DeepseekR1_8b, timeout |-> 600],
      [pattern |-> DeepseekR1_14b, timeout |-> 900],
      [pattern |-> Llama31, timeout |-> 300],
      [pattern |-> GptOss20b, timeout |-> 300]>>

\* for pattern, timeout in self.MODEL_TIMEOUTS_EXP2.items(): the first match, else the default
RECURSIVE FirstMatch(_, _)
FirstMatch(table, name) ==
    IF table = <<>> THEN EXPERIMENT_1_TIMEOUT
    ELSE IF Contains(name, Head(table).pattern) THEN Head(table).timeout
    ELSE FirstMatch(Tail(table), name)

\* variant of _get_timeout_for_experiment: the table is used in every experiment
_get_timeout_for_experiment_AlwaysTable(name, exp) == FirstMatch(MODEL_TIMEOUTS_EXP2, name)

_get_timeout_for_experiment(name, exp) ==
    IF exp = "1" THEN EXPERIMENT_1_TIMEOUT
    ELSE FirstMatch(MODEL_TIMEOUTS_EXP2, name)

\* how a request to the model server ends: a reply with a status and a body,
\* requests.exceptions.Timeout, or another exception of requests.post
Reply(status, body) == [kind |-> "reply", status |-> status, body |-> body]

RequestTimeout == [kind |-> "Timeout", status |-> None, body |-> Malformed]

RequestConnectionError == [kind |-> "ConnectionError", status |-> None, body |-> Malformed]

OllamaReplies ==
    { Reply("200", Json([response |-> "policy-a\n"])),
      Reply("200", Json([response |-> ""])),
      Reply("200", Json([done |-> "true"])),
      Reply("200", Malformed),
      Reply("500", Json([error |-> "e1"])),
      RequestTimeout,
      RequestConnectionError }

\* call_ollama once requests.post has ended: (response_text, success)
call_ollama(reply) ==
    IF reply.kind = "Timeout" THEN [response |-> None, success |-> FALSE]
    ELSE IF reply.kind # "reply" THEN [response |-> None, success |-> FALSE]
    ELSE IF reply.status = "200"
         THEN IF reply.body.valid
              THEN [response |-> Get(reply.body.data, "response", ""), success |-> TRUE]
              ELSE [response |-> None, success |-> FALSE]
         ELSE [response |-> None, success |-> FALSE]

PolicyKeys == {<<"C", "V", "E", "-", "1">>, <<"C", "V", "E", "-", "1", "0">>, <<"C", "V", "E", "-", "2">>}

\* the key orders of a policies file with at most MaxPolicies entries
PolicyFiles ==
    { file \in UNION { [1..n -> PolicyKeys] : n \in 0..MaxPolicies } : NoDuplicates(file) }

\* no parser exists
NoParser ==
    /\ deduplicated_vulns = <<>>
    /\ merged = <<>>
    /\ tree = <<>>
    /\ files = <<>>
    /\ pc = "idle"
    /\ error = None
    /\ parsed = <<>>
    /\ written = <<>>
    /\ run_calls = 0

(***************************************************************************)
(* SpecGen: one _generate_policies call on a new RAGLLMPolicyGenerator     *)
(***************************************************************************)
InitGen ==
    /\ NoParser
    /\ policies_raw \in PolicyFiles
    /\ limit_per_model \in 0..MaxLimit
    /\ reference_policies = Slice(sorted(policies_raw), limit_per_model)
    /\ model = <<>>
    /\ experiment = None
    /\ gen_pc = "idle"
    /\ gen_error = None
    /\ timeout = 0
    /\ todo = <<>>
    /\ generated_policies = <<>>
    /\ metadata = <<>>
    /\ experiment_stats = <<>>
    /\ requests = <<>>
    /\ replies = <<>>
    /\ saved = <<>>

\* _generate_policies up to its loop, called by generate_experiment_1 or _2
GenStart ==
    \E name \in Models, exp \in {"1", "2"} :
        /\ gen_pc = "idle"
        /\ model' = name
        /\ experiment' = exp
        /\ generated_policies' = <<>>
        /\ timeout' = _get_timeout_for_experiment(name, exp)
        /\ metadata' = [model |-> name,
                        experiment |-> exp,
                        timeout_seconds |-> timeout',
                        total_vulnerabilities |-> Len(reference_policies),
                        successful_generations |-> 0,
                        failed_generations |-> 0,
                        policy_ids_processed |-> <<>>]
        /\ todo' = reference_policies
        /\ gen_pc' = "loop"
        /\ UNCHANGED <<policies_raw, limit_per_model, reference_policies, gen_error,
                       experiment_stats, requests, replies, saved>>
        /\ UNCHANGED parser_vars

\* the head of one iteration: prompt_method builds the prompt, where
\* retrieve_context may raise what the embedder or the index raises, and
\* call_ollama sends the request
GenRequest ==
    /\ gen_pc = "loop"
    /\ todo # <<>>
    /\ \E retrieved \in BOOLEAN :
          IF retrieved
          THEN /\ requests' = Append(requests, [vuln_id |-> Head(todo), model |-> model,
                                                timeout |-> timeout])
               /\ gen_pc' = "waiting"
               /\ UNCHANGED gen_error
          ELSE /\ gen_pc' = "raised"
               /\ gen_error' = "PineconeException"
               /\ UNCHANGED requests
    /\ UNCHANGED <<policies_raw, limit_per_model, reference_policies, model, experiment, timeout,
                   todo, generated_policies, metadata, experiment_stats, replies, saved>>
    /\ UNCHANGED parser_vars

\* the rest of the iteration: call_ollama returns and the outcome is recorded
GenRecord ==
    /\ gen_pc = "waiting"
    /\ \E reply \in OllamaReplies :
          LET vuln_id == Head(todo)
              result == call_ollama(reply)
              recorded == SetItem(metadata, "policy_ids_processed",
                                  Append(metadata["policy_ids_processed"],
                                         [vuln_id |-> vuln_id, success |-> result.success]))
          IN  /\ replies' = Append(replies, reply)
              /\ IF result.success /\ Truthy(result.response)
                 THEN /\ generated_policies' = Store(generated_policies, vuln_id, result.response)
                      /\ metadata' = SetItem(recorded, "successful_generations",
                                             recorded["successful_generations"] + 1)
                 ELSE /\ metadata' = SetItem(recorded, "failed_generations",
                                             recorded["failed_generations"] + 1)
                      /\ UNCHANGED generated_policies
    /\ todo' = Tail(todo)
    /\ gen_pc' = "loop"
    /\ UNCHANGED <<policies_raw, limit_per_model, reference_policies, model, experiment, gen_error,
                   timeout, experiment_stats, requests, saved>>
    /\ UNCHANGED parser_vars

\* after the loop: the rates divide by total, then policies.json and
\* metadata.json are written and the metadata kept in self.experiment_stats
GenSave ==
    /\ gen_pc = "loop"
    /\ todo = <<>>
    /\ IF metadata["total_vulnerabilities"] = 0
       THEN /\ gen_pc' = "raised"
            /\ gen_error' = "ZeroDivisionError"
            /\ UNCHANGED <<experiment_stats, saved>>
       ELSE /\ saved' = saved \o <<[file |-> "policies.json", content |-> generated_policies],
                                    [file |-> "metadata.json", content |-> metadata]>>
            /\ experiment_stats' = Store(experiment_stats, <<model, experiment>>, metadata)
            /\ gen_pc' = "saved"
            /\ UNCHANGED gen_error
    /\ UNCHANGED <<policies_raw, limit_per_model, reference_policies, model, experiment, timeout,
                   todo, generated_policies, metadata, requests, replies>>
    /\ UNCHANGED parser_vars

NextGen == GenStart \/ GenRequest \/ GenRecord \/ GenSave

SpecGen == InitGen /\ [][NextGen]_vars

(***************************************************************************)
(* Properties of the generation loop (checked under SpecGen)               *)
(***************************************************************************)
\* the policy keys in ascending str order
KeysAscending ==
    <<<<"C", "V", "E", "-", "1">>, <<"C", "V", "E", "-", "1", "0">>, <<"C", "V", "E", "-", "2">>>>

\* the position of a key in the ascending order
KeyRank(key) == CHOOSE i \in 1..Len(KeysAscending) : KeysAscending[i] = key

\* the per-item records of the running or finished loop
Records == IF gen_pc = "idle" THEN <<>> ELSE metadata["policy_ids_processed"]

\* C16: the entries processed are the first limit_per_model keys of the
\* input in ascending order; the requests so far are for a prefix of them, in
\* that order; a request begins only when every earlier request has ended
\* and has its record, so at most one request is without record.
C16_SortedOneAtATime ==
    /\ [](/\ Len(reference_policies) =
               (IF limit_per_model < Len(policies_raw) THEN limit_per_model ELSE Len(policies_raw))
          /\ Range(reference_policies) \subseteq Range(policies_raw)
          /\ \A i, j \in 1..Len(reference_policies) :
                i < j => KeyRank(reference_policies[i]) < KeyRank(reference_policies[j])
          /\ \A key \in Range(policies_raw) \ Range(reference_policies) :
                \A kept \in Range(reference_policies) : KeyRank(kept) < KeyRank(key)
          /\ [i \in 1..Len(requests) |-> requests[i].vuln_id]
                = SubSeq(reference_policies, 1, Len(requests))
          /\ [i \in 1..Len(Records) |-> Records[i].vuln_id]
                = SubSeq(reference_policies, 1, Len(Records))
          /\ Len(replies) = Len(Records)
          /\ Len(requests) - Len(Records) = (IF gen_pc = "waiting" THEN 1 ELSE 0))
    /\ [][requests' # requests =>
             /\ Len(requests') = Len(requests) + 1
             /\ Len(Records) = Len(requests)
             /\ Len(replies) = Len(requests)]_vars

\* C16's case: a file of three keys in descending order, limit 2, both requests done
C16_Witness ==
    /\ gen_pc = "saved"
    /\ policies_raw = <<KeysAscending[3], KeysAscending[2], KeysAscending[1]>>
    /\ limit_per_model = 2
    /\ Len(requests) = 2
    /\ Len(Records) = 2

\* the request for the i-th processed entry ended without an HTTP 200 reply
RequestFailed(i) == replies[i].kind # "reply" \/ replies[i].status # "200"

\* the request for the i-th processed entry ended with an HTTP 200 reply that carries a response string
RepliedWithResponse(i) ==
    /\ replies[i].kind = "reply"
    /\ replies[i].status = "200"
    /\ replies[i].body.valid
    /\ "response" \in DOMAIN replies[i].body.data

\* C17: every processed entry is in the generated policies exactly when its
\* per-item record has success = true; after a non-200 status, a timeout or
\* another error the entry is absent and its record has success = false;
\* after an HTTP 200 reply the reply's response string is the entry's output.
C17_PresentIffSuccess ==
    \A i \in 1..Len(Records) :
        /\ HasKey(generated_policies, Records[i].vuln_id) <=> Records[i].success
        /\ RequestFailed(i) =>
              /\ ~HasKey(generated_policies, Records[i].vuln_id)
              /\ ~Records[i].success
        /\ RepliedWithResponse(i) =>
              /\ HasKey(generated_policies, Records[i].vuln_id)
              /\ Lookup(generated_policies, Records[i].vuln_id) = replies[i].body.data["response"]

\* the requests sent for a key
RequestsFor(key) == {i \in 1..Len(requests) : requests[i].vuln_id = key}

\* the per-item records of a key
RecordsFor(key) == {i \in 1..Len(Records) : Records[i].vuln_id = key}

\* C18: no entry is requested or recorded twice, and when the loop has ended,
\* whatever the outcomes of the items were, every processed entry has been
\* requested exactly once and has exactly one per-item record; the metadata
\* is written only then.
C18_FailuresNeverHalt ==
    /\ \A key \in Range(reference_policies) :
          /\ Cardinality(RequestsFor(key)) <= 1
          /\ Cardinality(RecordsFor(key)) <= 1
    /\ gen_pc \in {"saved", "raised"} =>
          \A key \in Range(reference_policies) :
              /\ Cardinality(RequestsFor(key)) = 1
              /\ Cardinality(RecordsFor(key)) = 1

\* C20: in experiment "1" the timeout is 300 for every model; every request
\* of a run carries the timeout_seconds of the run's metadata; in experiment
\* "2" a model whose name contains a pattern of the table has the pattern's
\* timeout (600 for "deepseek-r1:8b", 900 for "deepseek-r1:14b", 300 for
\* "llama3.1" and "gpt-oss:20b") and any other model 300.
C20_TimeoutPolicy ==
    gen_pc # "idle" =>
        /\ experiment = "1" => metadata["timeout_seconds"] = 300
        /\ \A i \in 1..Len(requests) : requests[i].timeout = metadata["timeout_seconds"]
        /\ experiment = "2" =>
              /\ Contains(model, DeepseekR1_8b) => metadata["timeout_seconds"] = 600
              /\ Contains(model, DeepseekR1_14b) => metadata["timeout_seconds"] = 900
              /\ Contains(model, Llama31) => metadata["timeout_seconds"] = 300
              /\ Contains(model, GptOss20b) => metadata["timeout_seconds"] = 300
              /\ (\A name \in {DeepseekR1_8b, DeepseekR1_14b, Llama31, GptOss20b} :
                     ~Contains(model, name))
                    => metadata["timeout_seconds"] = 300
        /\ \A i \in 1..Len(saved) :
              saved[i].file = "metadata.json" =>
                  saved[i].content["timeout_seconds"] = metadata["timeout_seconds"]

\* C20's case: experiment "1" with a model the table gives 600, two requests sent and the run saved
C20_Witness ==
    /\ gen_pc = "saved"
    /\ experiment = "1"
    /\ model = DeepseekR1_8b
    /\ Len(requests) = 2
    /\ requests[2].timeout = 300

\* C29: when _generate_policies has finished, successful_generations +
\* failed_generations = total_vulnerabilities = the number of per-item
\* records, and successful_generations is both the number of entries of the
\* policies written and the number of records with success = true.
C29_MetadataConsistent ==
    gen_pc = "saved" =>
        /\ metadata["successful_generations"] + metadata["failed_generations"]
              = metadata["total_vulnerabilities"]
        /\ metadata["total_vulnerabilities"] = Len(Records)
        /\ metadata["successful_generations"] = Len(saved[Len(saved) - 1].content)
        /\ metadata["successful_generations"]
              = Cardinality({i \in 1..Len(Records) : Records[i].success})

\* C30: once the loop of _generate_policies is through, for every size of
\* the mapping, policies.json and metadata.json are written and the run's
\* metadata is kept under its model and experiment.
C30_AlwaysWrites ==
    [][(gen_pc = "loop" /\ todo = <<>>) =>
          /\ gen_pc' = "saved"
          /\ saved' = saved \o <<[file |-> "policies.json", content |-> generated_policies],
                                  [file |-> "metadata.json", content |-> metadata]>>
          /\ HasKey(experiment_stats', <<model, experiment>>)
          /\ Lookup(experiment_stats', <<model, experiment>>) = metadata]_vars

(***************************************************************************)
(* SpecMain: main() of llmgenerator.py from the construction of the        *)
(* generator on: run(model, EXPERIMENT) for every model of MODELS, a       *)
(* KeyboardInterrupt at any point, and the finally clause                  *)
(***************************************************************************)
MODELS == <<GptOss20b>>

EXPERIMENT == "both"

\* _generate_policies(model, experiment, ...) up to its loop
StartGenerate(name, exp) ==
    /\ model' = name
    /\ experiment' = exp
    /\ generated_policies' = <<>>
    /\ timeout' = _get_timeout_for_experiment(name, exp)
    /\ metadata' = [model |-> name,
                    experiment |-> exp,
                    timeout_seconds |-> timeout',
                    total_vulnerabilities |-> Len(reference_policies),
                    successful_generations |-> 0,
                    failed_generations |-> 0,
                    policy_ids_processed |-> <<>>]
    /\ todo' = reference_policies
    /\ gen_pc' = "loop"
    /\ UNCHANGED <<policies_raw, limit_per_model, reference_policies, gen_error,
                   experiment_stats, requests, replies, saved>>
    /\ UNCHANGED parser_vars

\* the position of the running model in MODELS
ModelIndex == CHOOSE i \in 1..Len(MODELS) : MODELS[i] = model

\* run(model, "both") reaches generate_experiment_1: for the first model, or
\* for the next one once the model before has saved its experiment 2
MainExperiment1 ==
    /\ EXPERIMENT \in {"1", "both"}
    /\ \/ /\ gen_pc = "idle"
          /\ MODELS # <<>>
          /\ StartGenerate(MODELS[1], "1")
       \/ /\ gen_pc = "saved"
          /\ experiment = "2"
          /\ ModelIndex < Len(MODELS)
          /\ StartGenerate(MODELS[ModelIndex + 1], "1")

\* run(model, "both") reaches generate_experiment_2 after the sleep
MainExperiment2 ==
    /\ EXPERIMENT \in {"2", "both"}
    /\ gen_pc = "saved"
    /\ experiment = "1"
    /\ StartGenerate(model, "2")

\* the loop over MODELS is through
MainLoopOver ==
    \/ gen_pc = "idle" /\ MODELS = <<>>
    \/ gen_pc = "saved" /\ experiment = "2" /\ ModelIndex = Len(MODELS)

\* KeyboardInterrupt inside the try of main: before an experiment, inside the
\* loop of one (call_ollama catches Exception only), or in the sleep between
\* two; run() re-raises it
MainInterrupt ==
    /\ gen_pc \in {"idle", "loop", "waiting", "saved"}
    /\ ~MainLoopOver
    /\ gen_pc' = "raised"
    /\ gen_error' = "KeyboardInterrupt"
    /\ UNCHANGED <<policies_raw, limit_per_model, reference_policies, model, experiment, timeout,
                   todo, generated_policies, metadata, experiment_stats, requests, replies, saved>>
    /\ UNCHANGED parser_vars

\* the comparison of generate_fairness_report, sorted by experiment and then
\* by model
FairnessComparison(stats) ==
    LET item(entry) == [model |-> entry["model"],
                        experiment |-> entry["experiment"],
                        timeout_seconds |-> entry["timeout_seconds"],
                        successful_generations |-> entry["successful_generations"],
                        failed_generations |-> entry["failed_generations"]]
        of(exp) == SelectSeq(Values(stats), LAMBDA entry : entry["experiment"] = exp)
        all == of("1") \o of("2")
    IN  [i \in 1..Len(all) |-> item(all[i])]

\* the except and finally clauses of main: the report is written when
\* self.experiment_stats is not empty; an exception other than
\* KeyboardInterrupt leaves main after the finally clause
MainFinally ==
    /\ gen_pc = "raised" \/ MainLoopOver
    /\ saved' = IF experiment_stats # <<>>
                THEN Append(saved, [file |-> "fairness_report.json",
                                    content |-> FairnessComparison(experiment_stats)])
                ELSE saved
    /\ gen_pc' = IF gen_error \in {None, "KeyboardInterrupt"} THEN "done" ELSE "failed"
    /\ UNCHANGED <<policies_raw, limit_per_model, reference_policies, model, experiment, gen_error,
                   timeout, todo, generated_policies, metadata, experiment_stats, requests,
                   replies>>
    /\ UNCHANGED parser_vars

NextMain ==
    \/ MainExperiment1
    \/ MainExperiment2
    \/ GenRequest
    \/ GenRecord
    \/ GenSave
    \/ MainInterrupt
    \/ MainFinally

SpecMain == InitGen /\ [][NextMain]_vars

(***************************************************************************)
(* Properties of main (checked under SpecMain)                             *)
(***************************************************************************)
\* the fairness report has been written
ReportWritten == \E i \in 1..Len(saved) : saved[i].file = "fairness_report.json"

\* C21: when main is through with its loop over the models, also after a
\* KeyboardInterrupt at any point of an experiment, the fairness report has
\* been written.
C21_ReportAlwaysWritten ==
    (gen_pc = "done" /\ experiment # None) => ReportWritten

(***************************************************************************)
(* SpecExp3: run_experiment([model]) on a new Experiment3RAGGenerator.     *)
(* self.vulnerabilities is reference_policies, model_policies is           *)
(* generated_policies and model_metadata is metadata.                      *)
(***************************************************************************)
TIMEOUT == 300

\* text.strip(), on the texts that occur
Strip(text) == IF text = "policy-a\n" THEN "policy-a" ELSE text

\* f"Error: {response.status_code}", on the statuses that occur
StatusError(status) == IF status = "500" THEN "Error: 500" ELSE "Error: status"

\* generate_policy_with_rag once requests.post has ended: (policy, success);
\* the retrieval before it catches its own errors
generate_policy_with_rag(reply) ==
    IF reply.kind = "Timeout" THEN [policy |-> "Timeout", success |-> FALSE]
    ELSE IF reply.kind # "reply" THEN [policy |-> "Error: ConnectionError", success |-> FALSE]
    ELSE IF reply.status = "200"
         THEN IF reply.body.valid
              THEN [policy |-> Strip(Get(reply.body.data, "response", "")), success |-> TRUE]
              ELSE [policy |-> "Error: JSONDecodeError", success |-> FALSE]
         ELSE [policy |-> StatusError(reply.status), success |-> FALSE]

InitExp3 ==
    /\ NoParser
    /\ policies_raw \in PolicyFiles
    /\ limit_per_model \in 0..MaxLimit
    /\ reference_policies = Slice(sorted(policies_raw), limit_per_model)
    /\ model = <<>>
    /\ experiment = None
    /\ gen_pc = "idle"
    /\ gen_error = None
    /\ timeout = 0
    /\ todo = <<>>
    /\ generated_policies = <<>>
    /\ metadata = <<>>
    /\ experiment_stats = <<>>
    /\ requests = <<>>
    /\ replies = <<>>
    /\ saved = <<>>

\* run_experiment up to the loop over self.vulnerabilities
Exp3Start ==
    \E name \in Models :
        /\ gen_pc = "idle"
        /\ model' = name
        /\ experiment' = "3"
        /\ timeout' = TIMEOUT
        /\ generated_policies' = <<>>
        /\ metadata' = [model |-> name,
                        experiment |-> "3",
                        timeout_seconds |-> TIMEOUT,
                        total_vulnerabilities |-> Len(reference_policies),
                        successful_generations |-> 0,
                        failed_generations |-> 0,
                        policy_ids_processed |-> <<>>]
        /\ todo' = reference_policies
        /\ gen_pc' = "loop"
        /\ UNCHANGED <<policies_raw, limit_per_model, reference_policies, gen_error,
                       experiment_stats, requests, replies, saved>>
        /\ UNCHANGED parser_vars

\* the head of one iteration: generate_policy_with_rag sends the request
Exp3Request ==
    /\ gen_pc = "loop"
    /\ todo # <<>>
    /\ requests' = Append(requests, [vuln_id |-> Head(todo), model |-> model, timeout |-> timeout])
    /\ gen_pc' = "waiting"
    /\ UNCHANGED <<policies_raw, limit_per_model, reference_policies, model, experiment, gen_error,
                   timeout, todo, generated_policies, metadata, experiment_stats, replies, saved>>
    /\ UNCHANGED parser_vars

\* the rest of the iteration: the policy is stored and the outcome recorded
Exp3Record ==
    /\ gen_pc = "waiting"
    /\ \E reply \in OllamaReplies :
          LET vuln_id == Head(todo)
              result == generate_policy_with_rag(reply)
              recorded == SetItem(metadata, "policy_ids_processed",
                                  Append(metadata["policy_ids_processed"],
                                         [vuln_id |-> vuln_id, success |-> result.success]))
          IN  /\ replies' = Append(replies, reply)
              /\ generated_policies' = Store(generated_policies, vuln_id, result.policy)
              /\ metadata' = IF result.success
                             THEN SetItem(recorded, "successful_generations",
                                          recorded["successful_generations"] + 1)
                             ELSE SetItem(recorded, "failed_generations",
                                          recorded["failed_generations"] + 1)
    /\ todo' = Tail(todo)
    /\ gen_pc' = "loop"
    /\ UNCHANGED <<policies_raw, limit_per_model, reference_policies, model, experiment, gen_error,
                   timeout, experiment_stats, requests, saved>>
    /\ UNCHANGED parser_vars

\* after the loop: policies.json and metadata.json are written and the
\* metadata kept in experiment_stats
Exp3Save ==
    /\ gen_pc = "loop"
    /\ todo = <<>>
    /\ saved' = saved \o <<[file |-> "policies.json", content |-> generated_policies],
                           [file |-> "metadata.json", content |-> metadata]>>
    /\ experiment_stats' = Store(experiment_stats, model, metadata)
    /\ gen_pc' = "saved"
    /\ UNCHANGED <<policies_raw, limit_per_model, reference_policies, model, experiment, gen_error,
                   timeout, todo, generated_policies, metadata, requests, replies>>
    /\ UNCHANGED parser_vars

NextExp3 == Exp3Start \/ Exp3Request \/ Exp3Record \/ Exp3Save

SpecExp3 == InitExp3 /\ [][NextExp3]_vars

(***************************************************************************)
(* Properties of run_experiment (checked under SpecExp3)                   *)
(***************************************************************************)
\* C19: an entry whose request failed (timeout, non-200 status or another
\* error) has success = false in its per-item record and is absent from the
\* policies of the run and from every policies.json written.
C19_FailedEntryAbsent ==
    \A i \in 1..Len(Records) :
        RequestFailed(i) =>
            /\ ~Records[i].success
            /\ ~HasKey(generated_policies, Records[i].vuln_id)
            /\ \A j \in 1..Len(saved) :
                  saved[j].file = "policies.json" => ~HasKey(saved[j].content, Records[i].vuln_id)

====
